---- MODULE Spec2Model ----
(***************************************************************************)
(* goquest: the world model (Room, Egress, Item), the construction of a    *)
(* game State (game.New) and the state-transition function State.Advance.  *)
(*                                                                         *)
(* Strings are Go strings.  An error value is the format string and the    *)
(* arguments fmt.Errorf was called with.  A *Room is the key under which   *)
(* the room is stored in State.World (New stores one Room object per key), *)
(* or NilPtr.  The backing arrays of the Items slices live in mem, because *)
(* Room.RemoveItem rewrites its backing array in place; Exits and Aliases  *)
(* are written by no operation and are kept as plain sequences.            *)
(***************************************************************************)
EXTENDS Integers, Sequences, FiniteSets, TLC

VARIABLES
    perIter,   \* the build: TRUE when a range loop makes a new variable per iteration
    defs,      \* the source list of room definitions ([]Room)
    mem,       \* backing arrays of the Items slices
    gs,        \* the live States, one per session
    last,      \* the last call: its arguments and what it returned
    pre,       \* gs and mem as they were when the last call started
    hist,      \* the commands given since construction, while all were GO commands
    halted,    \* TRUE once a call has panicked
    input      \* the text still to come: the lines to be handed to ParseCommand,
               \* or the characters GetCommand's istream still holds

vars == <<perIter, defs, mem, gs, last, pre, hist, halted, input>>

\* ------------------------------------------------------------------ bounds

\* Number of sessions (States) built from one source list.
NumSessions == 2

\* GO commands remembered in hist; a longer run is recorded as Overflow.
MaxHist == 2

\* Longest source list handed to New.
MaxWorldLen == 2

\* ------------------------------------------------------------ basic values

NilPtr == "<nil>"

NilErr == [format |-> "<nil>", args |-> <<>>]

Errorf(format, args) == [format |-> format, args |-> args]


RECURSIVE Join(_, _)
Join(elems, sep) ==
    IF Len(elems) = 0 THEN ""
    ELSE IF Len(elems) = 1 THEN elems[1]
    ELSE elems[1] \o sep \o Join(Tail(elems), sep)

\* fmt's %q of a string (the vocabulary holds no character that needs an escape)
Quote(s) == "\"" \o s \o "\""

RECURSIVE QuoteAll(_)
QuoteAll(strs) ==
    IF Len(strs) = 0 THEN <<>> ELSE <<Quote(Head(strs))>> \o QuoteAll(Tail(strs))

\* ------------------------------------------------------------ source worlds

StartLabel == "YOUR_ROOM"

DefaultRooms ==
    << [ Label |-> "YOUR_ROOM",
         Name |-> "your bedroom",
         Description |-> "You are standing in your bedroom. Perhaps you are a young person who only now, on your 13th birthday, will receive a name. You have a pretty window in the corner overlooking the world outside. There's a door leading to your bathroom. to the east, and a door leading to the hall to the south.",
         Exits |-> << [ DestLabel |-> "BATHROOM",
                        Description |-> "your bathroom door",
                        Aliases |-> <<"BATHROOM", "TOILET", "DOOR", "EAST">>,
                        TravelMessage |-> "You go through the door and enter the bathroom." ],
                      [ DestLabel |-> "HALLWAY",
                        Description |-> "the door to the hall",
                        Aliases |-> <<"HALLWAY", "HALL", "OUT", "SOUTH">>,
                        TravelMessage |-> "You shut the door behind you as you go into the hall." ] >>,
         Items |-> <<>> ],
       [ Label |-> "BATHROOM",
         Name |-> "your ensuite bathroom",
         Description |-> "You are in the bathroom attached to your bedroom. There's a toilet, pristine due to your constant efforts to keep it clean, next to a sink and bathtub. You enjoy having your amenities not be a complete mess. The currently closed door to the west leads back to your bedroom.",
         Exits |-> << [ DestLabel |-> "YOUR_ROOM",
                        Description |-> "the door",
                        Aliases |-> <<"BEDROOM", "ROOM", "DOOR", "WEST">>,
                        TravelMessage |-> "You head back into the bedroom." ] >>,
         Items |-> <<>> ],
       [ Label |-> "HALLWAY",
         Name |-> "the main hallway in your house",
         Description |-> "This is the main hallway in your house that connects the bedrooms with the living room and kitchen. There's a doorway at the end, but it seems boarded up, and you're pretty sure that's because it represents the limits of the game you're in. I guess you're stuck here. In your home. Housetrapped.\n Anyways, there's also your bedroom door at the north end.",
         Exits |-> << [ DestLabel |-> "YOUR_ROOM",
                        Description |-> "the door to your bedroom",
                        Aliases |-> <<"BEDROOM", "ROOM", "NORTH">>,
                        TravelMessage |-> "You step into your bedroom, closing the door behind you for privacy." ] >>,
         Items |-> <<>> ] >>

\* The two-room world A --EAST--> B, B --WEST--> A.
TwoRooms ==
    << [ Label |-> "A", Name |-> "room a", Description |-> "You are in A.",
         Exits |-> << [ DestLabel |-> "B", Description |-> "the way east",
                        Aliases |-> <<"EAST">>, TravelMessage |-> "You walk east to B." ] >>,
         Items |-> <<>> ],
       [ Label |-> "B", Name |-> "room b", Description |-> "You are in B.",
         Exits |-> << [ DestLabel |-> "A", Description |-> "the way west",
                        Aliases |-> <<"WEST">>, TravelMessage |-> "You walk west to A." ] >>,
         Items |-> <<>> ] >>

Cup == [ Label |-> "CUP", Name |-> "a cup", Description |-> "A tin cup.",
         Aliases |-> <<"CUP", "MUG">> ]

Key == [ Label |-> "KEY", Name |-> "a key", Description |-> "A brass key.",
         Aliases |-> <<"KEY">> ]

Lamp == [ Label |-> "LAMP", Name |-> "a lamp", Description |-> "An oil lamp.",
          Aliases |-> <<"LAMP", "LIGHT">> ]

\* An item that shares the alias LIGHT with the lamp.
Candle == [ Label |-> "CANDLE", Name |-> "a candle", Description |-> "A wax candle.",
            Aliases |-> <<"CANDLE", "LIGHT">> ]

\* A second item that carries the label CUP: item labels are checked nowhere.
Goblet == [ Label |-> "CUP", Name |-> "a goblet", Description |-> "A silver goblet.",
            Aliases |-> <<"GOBLET">> ]

\* Rooms with items on the ground, an exit to a label that names no room, and
\* an alias (STAIRS) carried by two exits of one room.
CellarRooms ==
    << [ Label |-> "CELLAR", Name |-> "the cellar", Description |-> "A damp cellar.",
         Exits |-> << [ DestLabel |-> "ATTIC", Description |-> "the stairs up",
                        Aliases |-> <<"UP", "STAIRS">>,
                        TravelMessage |-> "You climb to the attic." ],
                      [ DestLabel |-> "VOID", Description |-> "a hole in the wall",
                        Aliases |-> <<"HOLE">>,
                        TravelMessage |-> "You squeeze into the hole." ] >>,
         Items |-> <<Cup, Key, Goblet>> ],
       [ Label |-> "ATTIC", Name |-> "the attic", Description |-> "A dusty attic.",
         Exits |-> << [ DestLabel |-> "ATTIC", Description |-> "the spiral stairs",
                        Aliases |-> <<"STAIRS", "AROUND">>,
                        TravelMessage |-> "You circle back into the attic." ],
                      [ DestLabel |-> "CELLAR", Description |-> "the stairs down",
                        Aliases |-> <<"DOWN", "STAIRS">>,
                        TravelMessage |-> "You descend to the cellar." ],
                      [ DestLabel |-> "CELLAR", Description |-> "a trapdoor",
                        Aliases |-> <<"TRAPDOOR">>,
                        TravelMessage |-> "You drop through the trapdoor." ] >>,
         Items |-> <<Lamp>> ] >>

\* A room whose items share an alias (LIGHT), with an exit back to itself.
LoftRooms ==
    << [ Label |-> "LOFT", Name |-> "the loft", Description |-> "A low loft.",
         Exits |-> << [ DestLabel |-> "LOFT", Description |-> "a beam to walk along",
                        Aliases |-> <<"BEAM">>,
                        TravelMessage |-> "You walk along the beam and back." ] >>,
         Items |-> <<Lamp, Key, Candle>> ] >>

\* The source lists sessions are built from, each with its starting label.
\* A room without exits.
Porch ==
    [ Label |-> "A", Name |-> "the porch", Description |-> "You are on the porch.",
      Exits |-> <<>>, Items |-> <<>> ]

\* The porch, and a room that leads to it and that no exit leads to.
PorchRooms == <<Porch, TwoRooms[2]>>

Worlds ==
    { [rooms |-> DefaultRooms, start |-> StartLabel],
      [rooms |-> TwoRooms, start |-> "A"],
      [rooms |-> CellarRooms, start |-> "CELLAR"],
      [rooms |-> PorchRooms, start |-> "A"] }


\* ------------------------------------------------------- rooms in memory

\* Backing arrays (the domain of mem): <<0, i>> is the Items array of the
\* i-th source room, <<s, i>> the array made for session s's copy of it.
\* The source list with each room's Items as a slice of its backing array.
LoadDefs(rooms) ==
    [i \in 1..Len(rooms) |->
        [rooms[i] EXCEPT !.Items = [ptr |-> <<0, i>>, len |-> Len(rooms[i].Items)]]]

\* The elements a slice header shows.
Elems(m, slice) == SubSeq(m[slice.ptr], 1, slice.len)

ItemCopy(item) ==
    [ Label |-> item.Label, Name |-> item.Name, Description |-> item.Description,
      Aliases |-> [k \in 1..Len(item.Aliases) |-> item.Aliases[k]] ]

EgressCopy(egress) ==
    [ DestLabel |-> egress.DestLabel, Description |-> egress.Description,
      TravelMessage |-> egress.TravelMessage,
      Aliases |-> [k \in 1..Len(egress.Aliases) |-> egress.Aliases[k]] ]

\* A copy that keeps the Items slice of the original (the same backing array).
RoomCopyShared(room, fresh) ==
    [ Label |-> room.Label, Name |-> room.Name, Description |-> room.Description,
      Exits |-> [k \in 1..Len(room.Exits) |-> EgressCopy(room.Exits[k])],
      Items |-> room.Items ]

\* Room.Copy: the copy's fields; its Items are a slice of the array made at fresh.
RoomCopy(room, fresh) ==
    [ Label |-> room.Label, Name |-> room.Name, Description |-> room.Description,
      Exits |-> [k \in 1..Len(room.Exits) |-> EgressCopy(room.Exits[k])],
      Items |-> [ptr |-> fresh, len |-> room.Items.len] ]

\* Room.Copy: the contents of the array made for the copy's Items.
RoomCopyItems(room, m) ==
    [k \in 1..room.Items.len |-> ItemCopy(m[room.Items.ptr][k])]

Labels(rooms) == {rooms[i].Label : i \in 1..Len(rooms)}

IndexOf(rooms, label) == CHOOSE i \in 1..Len(rooms) : rooms[i].Label = label

\* The State of session s over a source list, as New is written to build it:
\* World holds a copy of every room under its Label and CurrentRoom is
\* World[start].  New itself stops at its first store into the nil World map
\* (see New below); a session holds the State a caller makes from State's
\* exported fields, World being a made map.
NewState(rooms, start, s) ==
    [ World |-> [l \in Labels(rooms) |->
                    RoomCopy(rooms[IndexOf(rooms, l)], <<s, IndexOf(rooms, l)>>)],
      CurrentRoom |-> IF start \in Labels(rooms) THEN start ELSE NilPtr,
      Inventory |-> <<>> ]

\* A map read that looks for the room by its Name.
WorldGetByName(world, label) ==
    IF \E l \in DOMAIN world : world[l].Name = label
    THEN CHOOSE l \in DOMAIN world : world[l].Name = label
    ELSE NilPtr

\* gs.World[label]: the pointer stored under label, nil when there is none.
WorldGet(world, label) == IF label \in DOMAIN world THEN label ELSE NilPtr

\* *gs.CurrentRoom
Deref(st) == st.World[st.CurrentRoom]

\* ------------------------------------------------------------- lookups

\* An alias loop that breaks after its first comparison.
HasAliasFirst(aliases, alias) == Len(aliases) > 0 /\ aliases[1] = alias

\* The inner loop of the lookups: some alias of the list equals alias.
HasAlias(aliases, alias) == \E j \in 1..Len(aliases) : aliases[j] = alias

\* The loops of GetEgress: found is 0 (nil) or the iteration at which
\* foundEgress = &eg was last executed; the inner break leaves only the
\* alias loop, so the scan goes on to the end of exits.
RECURSIVE ScanExits(_, _, _, _)
ScanExits(exits, alias, i, found) ==
    IF i > Len(exits) THEN found
    ELSE ScanExits(exits, alias, i + 1,
                   IF HasAlias(exits[i].Aliases, alias) THEN i ELSE found)

\* Room.GetEgress / Room.GetEgressByAlias: <<>> is nil, <<e>> a pointer to e.
\* With one eg per iteration the pointer addresses the variable of the last
\* matching iteration; with one eg for the whole loop it addresses that
\* variable, which holds the last element of Exits when the loop ends.
GetEgress(room, alias) ==
    LET found == ScanExits(room.Exits, alias, 1, 0)
    IN  IF found = 0 THEN <<>>
        ELSE IF perIter THEN <<room.Exits[found]>>
        ELSE <<room.Exits[Len(room.Exits)]>>

\* ------------------------------------------------------------- Advance

Cmd(verb, recipient, instrument) ==
    [Verb |-> verb, Recipient |-> recipient, Instrument |-> instrument]

\* What the output stream does with this call's write: "ok", or the
\* WriteString fails ("write"), or the Flush fails ("flush").
IoOutcomes == {"ok", "write", "flush"}

IoError == "broken pipe"

\* Egress.String
EgressString(egress) ==
    "Egress([" \o Join(QuoteAll(egress.Aliases), " ") \o "] -> " \o egress.DestLabel \o ")"

\* Room.String
RoomString(room) ==
    "Room<" \o room.Label \o " " \o Quote(room.Name) \o " EXITS: "
        \o Join([k \in 1..Len(room.Exits) |-> EgressString(room.Exits[k])], ", ") \o ">"

\* An exit table that lists the last exit first.
RECURSIVE ExitTableLastFirst(_)
ExitTableLastFirst(exits) ==
    IF Len(exits) = 0 THEN ""
    ELSE ExitTableLastFirst(Tail(exits))
             \o Join(Head(exits).Aliases, "/") \o " -> " \o Head(exits).Description \o "\n"

\* The loop of case EXITS.
RECURSIVE ExitTable(_)
ExitTable(exits) ==
    IF Len(exits) = 0 THEN ""
    ELSE Join(Head(exits).Aliases, "/") \o " -> " \o Head(exits).Description \o "\n"
             \o ExitTable(Tail(exits))

HelpText ==
    "Here are the commands you can use (WIP commands do not yet work fully):\n"
    \o "HELP       - show this help\n"
    \o "DROP/PUT   - put down an object in the room [WIP]\n"
    \o "DEBUG ROOM - print info on the current room\n"
    \o "EXITS      - show the names of all exits from the room\n"
    \o "GO/MOVE    - go to another room via one of the exits\n"
    \o "LOOK       - show the description of the room\n"
    \o "QUIT/EXIT  - end the game\n"
    \o "TAKE/GET   - pick up an object in the room [WIP]\n"
    \o "TALK/SPEAK - talk to someone/something in the room [WIP]\n"
    \o "USE        - use an object in your inventory [WIP]\n"

\* The words in capitals that a format of Advance shows as they are.
FormatWords(format) ==
    CASE format = "I can't QUIT; I'm not being executed by a quitable engine" -> {"QUIT"}
      [] format = "I can't LOOK at particular things yet" -> {"LOOK"}
      [] OTHER -> {}

\* The command words an error's message shows: the arguments its verbs
\* print and the words of its format.
Mentions(err) == {err.args[i] : i \in 1..Len(err.args)} \cup FormatWords(err.format)

\* A return from within the switch: nothing is handed to the stream.
Return(st, err) ==
    [st |-> st, err |-> err, wrote |-> <<>>, flushed |-> FALSE, panic |-> FALSE]

\* A nil-pointer dereference of gs.CurrentRoom.
Panic(st) ==
    [st |-> st, err |-> NilErr, wrote |-> <<>>, flushed |-> FALSE, panic |-> TRUE]

\* The end of Advance: the write of output and the flush.
WriteOutput(st, output, io) ==
    IF io = "write"
    THEN [st |-> st, err |-> Errorf("could not write output: %w", <<IoError>>),
          wrote |-> <<>>, flushed |-> FALSE, panic |-> FALSE]
    ELSE IF io = "flush"
    THEN [st |-> st, err |-> Errorf("could not flush output: %w", <<IoError>>),
          wrote |-> <<output \o "\n\n">>, flushed |-> FALSE, panic |-> FALSE]
    ELSE [st |-> st, err |-> NilErr,
          wrote |-> <<output \o "\n\n">>, flushed |-> TRUE, panic |-> FALSE]

\* case "GO" without the check of egress against nil: the read of
\* egress.DestLabel dereferences a nil pointer.
AdvanceGoUnchecked(st, cmd, io) ==
    IF st.CurrentRoom = NilPtr THEN Panic(st)
    ELSE LET egress == GetEgress(Deref(st), cmd.Recipient)
         IN  IF egress = <<>> THEN Panic(st)
             ELSE WriteOutput([st EXCEPT !.CurrentRoom =
                                   WorldGet(st.World, egress[1].DestLabel)],
                              egress[1].TravelMessage, io)

\* case "GO"
AdvanceGo(st, cmd, io) ==
    IF st.CurrentRoom = NilPtr THEN Panic(st)
    ELSE LET egress == GetEgress(Deref(st), cmd.Recipient)
         IN  IF egress = <<>>
             THEN Return(st, Errorf("%q isn't a place you can go from here",
                                    <<cmd.Recipient>>))
             ELSE WriteOutput([st EXCEPT !.CurrentRoom =
                                   WorldGet(st.World, egress[1].DestLabel)],
                              egress[1].TravelMessage, io)

\* case "QUIT" that falls through to the write.
AdvanceQuitWrites(st, cmd, io) ==
    WriteOutput(st, "", io)

\* case "QUIT"
AdvanceQuit(st, cmd, io) ==
    Return(st, Errorf("I can't QUIT; I'm not being executed by a quitable engine", <<>>))

\* case "EXITS" that refuses a Recipient.
AdvanceExitsStrict(st, cmd, io) ==
    IF cmd.Recipient /= ""
    THEN Return(st, Errorf("I can't show the EXITS of particular things", <<>>))
    ELSE IF st.CurrentRoom = NilPtr THEN Panic(st)
    ELSE WriteOutput(st, ExitTable(Deref(st).Exits), io)

\* case "EXITS"
AdvanceExits(st, cmd, io) ==
    IF st.CurrentRoom = NilPtr THEN Panic(st)
    ELSE WriteOutput(st, ExitTable(Deref(st).Exits), io)

\* case "LOOK" that shows the room's Name.
AdvanceLookName(st, cmd, io) ==
    IF cmd.Recipient /= ""
    THEN Return(st, Errorf("I can't LOOK at particular things yet", <<>>))
    ELSE IF st.CurrentRoom = NilPtr THEN Panic(st)
    ELSE WriteOutput(st, Deref(st).Name, io)

\* case "LOOK"
AdvanceLook(st, cmd, io) ==
    IF cmd.Recipient /= ""
    THEN Return(st, Errorf("I can't LOOK at particular things yet", <<>>))
    ELSE IF st.CurrentRoom = NilPtr THEN Panic(st)
    ELSE WriteOutput(st, Deref(st).Description, io)

\* case "DEBUG" that takes a missing Recipient to mean the room.
AdvanceDebugDefault(st, cmd, io) ==
    IF cmd.Recipient = "ROOM" \/ cmd.Recipient = ""
    THEN IF st.CurrentRoom = NilPtr THEN Panic(st)
         ELSE WriteOutput(st, RoomString(Deref(st)), io)
    ELSE Return(st, Errorf("I don't know how to debug %q", <<cmd.Recipient>>))

\* case "DEBUG" that reports another Recipient with the message of the
\* default case.
AdvanceDebugUnknownVerb(st, cmd, io) ==
    IF cmd.Recipient = "ROOM"
    THEN IF st.CurrentRoom = NilPtr THEN Panic(st)
         ELSE WriteOutput(st, RoomString(Deref(st)), io)
    ELSE Return(st, Errorf("I don't know how to %q", <<cmd.Verb>>))

\* case "DEBUG"
AdvanceDebug(st, cmd, io) ==
    IF cmd.Recipient = "ROOM"
    THEN IF st.CurrentRoom = NilPtr THEN Panic(st)
         ELSE WriteOutput(st, RoomString(Deref(st)), io)
    ELSE Return(st, Errorf("I don't know how to debug %q", <<cmd.Recipient>>))

\* case "HELP"
AdvanceHelp(st, cmd, io) ==
    WriteOutput(st, HelpText, io)

\* State.Advance whose default case narrates nothing and succeeds.
AdvanceLenient(st, cmd, io) ==
    CASE cmd.Verb = "QUIT"  -> AdvanceQuit(st, cmd, io)
      [] cmd.Verb = "GO"    -> AdvanceGo(st, cmd, io)
      [] cmd.Verb = "EXITS" -> AdvanceExits(st, cmd, io)
      [] cmd.Verb = "LOOK"  -> AdvanceLook(st, cmd, io)
      [] cmd.Verb = "DEBUG" -> AdvanceDebug(st, cmd, io)
      [] cmd.Verb = "HELP"  -> AdvanceHelp(st, cmd, io)
      [] OTHER -> WriteOutput(st, "", io)

\* State.Advance
Advance(st, cmd, io) ==
    CASE cmd.Verb = "QUIT"  -> AdvanceQuit(st, cmd, io)
      [] cmd.Verb = "GO"    -> AdvanceGo(st, cmd, io)
      [] cmd.Verb = "EXITS" -> AdvanceExits(st, cmd, io)
      [] cmd.Verb = "LOOK"  -> AdvanceLook(st, cmd, io)
      [] cmd.Verb = "DEBUG" -> AdvanceDebug(st, cmd, io)
      [] cmd.Verb = "HELP"  -> AdvanceHelp(st, cmd, io)
      [] OTHER -> Return(st, Errorf("I don't know how to %q", <<cmd.Verb>>))

\* ---------------------------------------------------------- RemoveItem

\* A search loop without the break: the last index whose item has the label.
RECURSIVE FindItemIndexLast(_, _, _)
FindItemIndexLast(items, label, idx) ==
    IF idx > Len(items) THEN 0
    ELSE IF FindItemIndexLast(items, label, idx + 1) /= 0
         THEN FindItemIndexLast(items, label, idx + 1)
    ELSE IF items[idx].Label = label THEN idx
    ELSE 0

\* The search loop of RemoveItem: the first index whose item has the label,
\* 0 when there is none (the code's -1).
RECURSIVE FindItemIndex(_, _, _)
FindItemIndex(items, label, idx) ==
    IF idx > Len(items) THEN 0
    ELSE IF items[idx].Label = label THEN idx
    ELSE FindItemIndex(items, label, idx + 1)

\* A removal that puts the last element in the place of the removed one.
AppendSwapRemove(arr, len, itemIndex) ==
    [k \in 1..Len(arr) |-> IF k = itemIndex THEN arr[len] ELSE arr[k]]

\* append(room.Items[:itemIndex], room.Items[itemIndex+1:]...): the elements
\* after itemIndex move down one place within the same backing array, whose
\* last used cell keeps its old value.
AppendInPlace(arr, len, itemIndex) ==
    [k \in 1..Len(arr) |-> IF k >= itemIndex /\ k < len THEN arr[k + 1] ELSE arr[k]]

\* Room.RemoveItem: the room and the memory after the call.
RemoveItem(room, m, label) ==
    LET itemIndex == FindItemIndex(Elems(m, room.Items), label, 1)
    IN  IF itemIndex = 0
        THEN [room |-> room, mem |-> m]
        ELSE [room |-> [room EXCEPT !.Items.len = room.Items.len - 1],
              mem |-> [m EXCEPT ![room.Items.ptr] =
                          AppendInPlace(m[room.Items.ptr], room.Items.len, itemIndex)]]

\* ------------------------------------------------------ GetItemByAlias

\* The loops of GetItemByAlias: found is 0 (nil) or the iteration at which
\* foundItem = &it was last executed.
RECURSIVE ScanItems(_, _, _, _)
ScanItems(items, alias, i, found) ==
    IF i > Len(items) THEN found
    ELSE ScanItems(items, alias, i + 1,
                   IF HasAlias(items[i].Aliases, alias) THEN i ELSE found)

\* Room.GetItemByAlias: <<>> is nil, <<it>> a pointer to it (the loop
\* variable, as in GetEgress).
GetItemByAlias(room, m, alias) ==
    LET items == Elems(m, room.Items)
        found == ScanItems(items, alias, 1, 0)
    IN  IF found = 0 THEN <<>>
        ELSE IF perIter THEN <<items[found]>>
        ELSE <<items[Len(items)]>>

\* ------------------------------------------------------------- inputs

AllAliases ==
    UNION { {defs[i].Exits[k].Aliases[j] : j \in 1..Len(defs[i].Exits[k].Aliases)} :
              <<i, k>> \in {p \in (1..Len(defs)) \X (1..3) : p[2] <= Len(defs[p[1]].Exits)} }

\* Recipients of GO: every alias of the world, the empty one, a word that is
\* no alias anywhere and an alias in lower case.
GoWords == AllAliases \cup {"", "XYZZY", "east"}

Commands ==
    {Cmd("GO", r, "") : r \in GoWords}
    \cup { Cmd("QUIT", "", ""), Cmd("QUIT", "DOOR", "CUP"),
           Cmd("EXITS", "", ""), Cmd("EXITS", "DOOR", ""),
           Cmd("LOOK", "", ""), Cmd("LOOK", "DOOR", ""),
           Cmd("DEBUG", "ROOM", ""), Cmd("DEBUG", "", ""), Cmd("DEBUG", "DOOR", ""),
           Cmd("HELP", "", ""), Cmd("HELP", "ME", ""),
           Cmd("TAKE", "CUP", ""), Cmd("GET", "WATER", "CUP"),
           Cmd("DROP", "CUP", ""), Cmd("PUT", "CUP", ""), Cmd("USE", "KEY", "DOOR"),
           Cmd("TALK", "MAN", ""),
           Cmd("", "", ""), Cmd("go", "EAST", "") }

\* The value of hist once another command, or more than MaxHist, were given.
Overflow == <<Cmd("...", "", "")>>

ItemLabels == {"CUP", "KEY", "LAMP", "CANDLE", "SWORD"}

\* Words looked up among the items: their aliases, a word that is no alias,
\* the empty word and an alias in lower case.
ItemWords == {"CUP", "MUG", "KEY", "LAMP", "LIGHT", "CANDLE", "GOBLET", "SWORD", "", "cup"}

NoCall == [op |-> "none"]

\* ------------------------------------------------------- specification

\* The state after construction: n States built from the rooms of w, each
\* with arrays of its own for the Items of its rooms.
Built(w, n, b, h) ==
    /\ perIter = b
    /\ defs = LoadDefs(w.rooms)
    /\ gs = [s \in 1..n |-> NewState(LoadDefs(w.rooms), w.start, s)]
    /\ mem = [a \in (0..n) \X (1..Len(w.rooms)) |->
                IF a[1] = 0 THEN w.rooms[a[2]].Items
                ELSE RoomCopyItems(LoadDefs(w.rooms)[a[2]],
                                   [c \in {<<0, a[2]>>} |-> w.rooms[a[2]].Items])]
    /\ last = NoCall
    /\ pre = [gs |-> gs, mem |-> mem]
    /\ hist = h
    /\ halted = FALSE
    /\ input = <<>>

Init ==
    \E w \in Worlds, b \in BOOLEAN : Built(w, 1, b, <<>>)

\* One call of gs[s].Advance(cmd, ostream).
AdvanceCall(s, cmd, io) ==
    /\ ~halted
    /\ \E r \in {Advance(gs[s], cmd, io)} :
           /\ gs' = [gs EXCEPT ![s] = r.st]
           /\ last' = [op |-> "Advance", s |-> s, cmd |-> cmd, io |-> io, err |-> r.err,
                       wrote |-> r.wrote, flushed |-> r.flushed, panic |-> r.panic]
           /\ halted' = r.panic
    /\ pre' = [gs |-> gs, mem |-> mem]
    /\ hist' = IF hist = Overflow \/ Len(hist) >= MaxHist \/ cmd.Verb /= "GO"
               THEN Overflow
               ELSE Append(hist, cmd)
    /\ UNCHANGED <<input, perIter, defs, mem>>

\* The number of items that have the label.
CountLabel(items, label) == Cardinality({k \in 1..Len(items) : items[k].Label = label})

\* One call of gs[s].World[room].RemoveItem(label).  again tells that the
\* call before was the same call, and had how many items of the room had the
\* label when that call started.
RemoveItemCall(s, room, label) ==
    /\ ~halted
    /\ \E r \in {RemoveItem(gs[s].World[room], mem, label)} :
           /\ gs' = [gs EXCEPT ![s].World[room] = r.room]
           /\ mem' = r.mem
    /\ \E again \in {last.op = "RemoveItem" /\ last.s = s /\ last.room = room
                                             /\ last.label = label} :
           last' = [op |-> "RemoveItem", s |-> s, room |-> room, label |-> label,
                    again |-> again,
                    had |-> IF again
                            THEN CountLabel(Elems(pre.mem, pre.gs[s].World[room].Items), label)
                            ELSE 0]
    /\ pre' = [gs |-> gs, mem |-> mem]
    /\ UNCHANGED <<input, perIter, defs, hist, halted>>

\* One call of gs[s].World[room].GetEgress(alias).
GetEgressCall(s, room, alias) ==
    /\ ~halted
    /\ last' = [op |-> "GetEgress", s |-> s, room |-> room, alias |-> alias,
                egress |-> GetEgress(gs[s].World[room], alias)]
    /\ pre' = [gs |-> gs, mem |-> mem]
    /\ UNCHANGED <<input, perIter, defs, mem, gs, hist, halted>>

\* One call of gs[s].World[room].GetItemByAlias(alias).  When the call
\* before was a RemoveItem on the same room, removed holds its label and
\* before the items the room had when it started.
GetItemByAliasCall(s, room, alias) ==
    /\ ~halted
    /\ \E after \in {last.op = "RemoveItem" /\ last.s = s /\ last.room = room} :
           last' = [op |-> "GetItemByAlias", s |-> s, room |-> room, alias |-> alias,
                    item |-> GetItemByAlias(gs[s].World[room], mem, alias),
                    removed |-> IF after THEN <<last.label>> ELSE <<>>,
                    before |-> IF after THEN Elems(pre.mem, pre.gs[s].World[room].Items)
                               ELSE <<>>]
    /\ pre' = [gs |-> gs, mem |-> mem]
    /\ UNCHANGED <<input, perIter, defs, mem, gs, hist, halted>>

\* A session: the commands of one player, one at a time.
Next ==
    \E cmd \in Commands, io \in IoOutcomes : AdvanceCall(1, cmd, io)

Spec == Init /\ [][Next]_vars

\* Sessions whose rooms are also looked into and emptied; no history is kept.
InitLookups ==
    \E w \in Worlds, b \in BOOLEAN : Built(w, NumSessions, b, Overflow)

\* The first session acts; the other sessions only hold their States.
NextLookups ==
    \/ \E cmd \in Commands, io \in IoOutcomes : AdvanceCall(1, cmd, io)
    \/ \E room \in Labels(defs), label \in ItemLabels : RemoveItemCall(1, room, label)
    \/ \E room \in Labels(defs), alias \in GoWords : GetEgressCall(1, room, alias)

SpecLookups == InitLookups /\ [][NextLookups]_vars

\* The items of a session's rooms: removals and lookups, in any order.
ItemWorlds ==
    { [rooms |-> CellarRooms, start |-> "CELLAR"],
      [rooms |-> LoftRooms, start |-> "LOFT"] }

InitItems ==
    \E w \in ItemWorlds, b \in BOOLEAN : Built(w, 1, b, Overflow)

NextItems ==
    \/ \E room \in Labels(defs), label \in ItemLabels : RemoveItemCall(1, room, label)
    \/ \E room \in Labels(defs), alias \in ItemWords : GetItemByAliasCall(1, room, alias)

SpecItems == InitItems /\ [][NextItems]_vars

\* ------------------------------------------------------------------ New

\* A Go map: nil (the zero value of State.World) or made.  A nil map reads as
\* empty; an assignment to an entry of a nil map panics.
NilMap == [nil |-> TRUE, m |-> <<>>]

MapHas(map, key) == key \in DOMAIN map.m

MapPut(map, key, val) ==
    [nil |-> FALSE,
     m |-> [k \in DOMAIN map.m \cup {key} |-> IF k = key THEN val ELSE map.m[k]]]

\* The aliases of all exits of a room, in the order the two loops visit them.
RECURSIVE FlatAliases(_)
FlatAliases(exits) ==
    IF Len(exits) = 0 THEN <<>> ELSE Head(exits).Aliases \o FlatAliases(Tail(exits))

\* The alias sanity check of New: <<alias>> for the first alias found in
\* seenAliases, <<>> when the loops end.  No statement of the loops adds to
\* seenAliases, so the set is handed on as it is.
RECURSIVE SeenAlias(_, _)
SeenAlias(aliases, seenAliases) ==
    IF Len(aliases) = 0 THEN <<>>
    ELSE IF Head(aliases) \in seenAliases THEN <<Head(aliases)>>
    ELSE SeenAlias(Tail(aliases), seenAliases)

NewResult(panic, err, world, current) ==
    [panic |-> panic, err |-> err,
     gs |-> [World |-> world, CurrentRoom |-> current, Inventory |-> <<>>]]

\* The loop of New over world[i..], with gs.World as it is on entry.
RECURSIVE NewRooms(_, _, _)
NewRooms(world, i, map) ==
    IF i > Len(world) THEN NewResult(FALSE, NilErr, map, NilPtr)
    ELSE LET r == world[i]
             seen == SeenAlias(FlatAliases(r.Exits), {})
         IN  IF MapHas(map, r.Label)
             THEN NewResult(FALSE, Errorf("duplicate room label %q in roomDefs", <<r.Label>>),
                            map, NilPtr)
             ELSE IF seen /= <<>>
             THEN NewResult(FALSE,
                            Errorf("duplicate egress alias %q in room %q in roomDefs",
                                   <<seen[1], r.Label>>),
                            map, NilPtr)
             ELSE IF map.nil
             THEN NewResult(TRUE, NilErr, map, NilPtr)
             ELSE NewRooms(world, i + 1, MapPut(map, r.Label, RoomCopy(r, <<1, i>>)))

\* game.New: gs := State{} leaves gs.World nil.
New(world, startingRoom) ==
    LET loaded == NewRooms(world, 1, NilMap)
    IN  IF loaded.panic \/ loaded.err /= NilErr THEN loaded
        ELSE IF ~MapHas(loaded.gs.World, startingRoom)
        THEN NewResult(FALSE,
                       Errorf("starting room with label %q does not exist in passed-in rooms",
                              <<startingRoom>>),
                       loaded.gs.World, NilPtr)
        ELSE NewResult(FALSE, NilErr, loaded.gs.World, startingRoom)

\* The loop of the package's init over roomDefs[i..], with AllRooms as it is
\* on entry; value is what the loop panicked with.
RECURSIVE initRooms(_, _, _)
initRooms(roomDefs, i, map) ==
    IF i > Len(roomDefs) THEN [panic |-> FALSE, value |-> NilErr, AllRooms |-> map]
    ELSE LET r == roomDefs[i]
             seen == SeenAlias(FlatAliases(r.Exits), {})
         IN  IF MapHas(map, r.Label)
             THEN [panic |-> TRUE, AllRooms |-> map,
                   value |-> Errorf("duplicate room label %q in roomDefs", <<r.Label>>)]
             ELSE IF seen /= <<>>
             THEN [panic |-> TRUE, AllRooms |-> map,
                   value |-> Errorf("duplicate egress alias %q in room %q in roomDefs",
                                    <<seen[1], r.Label>>)]
             ELSE IF map.nil
             THEN [panic |-> TRUE, AllRooms |-> map,
                   value |-> Errorf("assignment to entry in nil map", <<>>)]
             ELSE initRooms(roomDefs, i + 1, MapPut(map, r.Label, r))

\* func init(): var AllRooms map[string]Room is nil when the loop starts.
init(roomDefs) == initRooms(roomDefs, 1, NilMap)

\* Rooms that source lists are made of: the two-room world, the porch (a
\* second room labelled A), a room that repeats an alias on one exit, and the
\* cellar world (an exit to no room; an alias on two exits of the attic).
Closet ==
    [ Label |-> "CLOSET", Name |-> "a closet", Description |-> "You are in a closet.",
      Exits |-> << [ DestLabel |-> "A", Description |-> "the closet door",
                     Aliases |-> <<"OUT", "DOOR", "OUT">>,
                     TravelMessage |-> "You step out." ] >>,
      Items |-> <<>> ]

RoomPool == {TwoRooms[1], TwoRooms[2], Porch, Closet, CellarRooms[1], CellarRooms[2]}

RoomLists == UNION {[1..n -> RoomPool] : n \in 0..MaxWorldLen}

StartWords == {"A", "B", "ATTIC", "CLOSET", "NOWHERE", ""}

InitNew ==
    \E rooms \in RoomLists, b \in BOOLEAN :
        /\ perIter = b
        /\ defs = LoadDefs(rooms)
        /\ gs = <<>>
        /\ mem = [a \in {0} \X (1..Len(rooms)) |-> rooms[a[2]].Items]
        /\ last = NoCall
        /\ pre = [gs |-> gs, mem |-> mem]
        /\ hist = Overflow
        /\ halted = FALSE
        /\ input = <<>>

\* One call of New(defs, startingRoom).
NewCall(startingRoom) ==
    /\ ~halted
    /\ \E r \in {New(defs, startingRoom)} :
           /\ last' = [op |-> "New", startingRoom |-> startingRoom,
                       panic |-> r.panic, err |-> r.err, gs |-> r.gs]
           /\ halted' = r.panic
    /\ pre' = [gs |-> gs, mem |-> mem]
    /\ UNCHANGED <<input, perIter, defs, mem, gs, hist>>

\* The package's init run over defs as its roomDefs.
InitLoaderCall ==
    /\ ~halted
    /\ \E r \in {init(defs)} :
           /\ last' = [op |-> "init", panic |-> r.panic, value |-> r.value,
                       AllRooms |-> r.AllRooms]
           /\ halted' = r.panic
    /\ pre' = [gs |-> gs, mem |-> mem]
    /\ UNCHANGED <<input, perIter, defs, mem, gs, hist>>

NextNew ==
    \/ \E startingRoom \in StartWords : NewCall(startingRoom)
    \/ InitLoaderCall

SpecNew == InitNew /\ [][NextNew]_vars

\* ---------------------------------------------------------- ParseCommand

\* A line of text is the sequence of its characters; a token is a string.

\* Tokens of a line handed to the parser (MaxTokens + 1 make a longer line).
MaxTokens == 3

Small == <<"a", "b", "c", "d", "e", "f", "g", "h", "i", "j", "k", "l", "m", "n", "o", "p", "q", "r", "s", "t", "u", "v", "w", "x", "y", "z">>

Capital == <<"A", "B", "C", "D", "E", "F", "G", "H", "I", "J", "K", "L", "M", "N", "O", "P", "Q", "R", "S", "T", "U", "V", "W", "X", "Y", "Z">>

\* The letter c in upper case; every other character is left as it is.
ToUpperChar(c) ==
    IF \E i \in 1..Len(Small) : Small[i] = c
    THEN Capital[CHOOSE i \in 1..Len(Small) : Small[i] = c]
    ELSE c

\* strings.ToUpper
ToUpper(s) == [i \in 1..Len(s) |-> ToUpperChar(s[i])]

\* unicode.IsSpace, for the characters of the lines
IsSpace(c) == c \in {" ", "\t", "\n", "\r", "\f"}

\* The scan of strings.Fields from character i on: cur is the field being
\* read, fields the fields read so far.
RECURSIVE FieldsFrom(_, _, _, _)
FieldsFrom(s, i, cur, fields) ==
    IF i > Len(s) THEN (IF cur = "" THEN fields ELSE Append(fields, cur))
    ELSE IF IsSpace(s[i])
         THEN FieldsFrom(s, i + 1, "", IF cur = "" THEN fields ELSE Append(fields, cur))
    ELSE FieldsFrom(s, i + 1, cur \o s[i], fields)

\* strings.Fields: the maximal runs of characters that are not white space.
Fields(s) == FieldsFrom(s, 1, "", <<>>)

ZeroCommand == Cmd("", "", "")

ParseResult(cmd, err) == [cmd |-> cmd, err |-> err]

\* The first words that stand for a direction to go in.
Directions == {"NORTH", "SOUTH", "EAST", "WEST"}

\* The rest of ParseCommand, from the matching of tokens[0] on: the synonym
\* table and the positional Recipient.  No verb of the table takes an
\* Instrument; of the error for a first token outside the table only what it
\* names is known, the token.
ParseTokens(tokens) ==
    LET following == IF Len(tokens) >= 2 THEN tokens[2] ELSE ""
    IN  CASE tokens[1] \in {"GO", "MOVE"} -> ParseResult(Cmd("GO", following, ""), NilErr)
          [] tokens[1] \in Directions ->
                 ParseResult(Cmd("GO", IF Len(tokens) >= 2 THEN tokens[2] ELSE tokens[1], ""),
                             NilErr)
          [] tokens[1] \in {"QUIT", "EXIT"} -> ParseResult(Cmd("QUIT", following, ""), NilErr)
          [] tokens[1] \in {"LOOK", "EXITS", "HELP", "DEBUG"} ->
                 ParseResult(Cmd(tokens[1], following, ""), NilErr)
          [] OTHER -> ParseResult(Cmd(tokens[1], "", ""),
                                  Errorf("unknown verb %q", <<tokens[1]>>))

\* ParseCommand that has no case for a line without tokens.
ParseCommandNoEmpty(toParse) ==
    LET tokens == Fields(ToUpper(toParse))
    IN  IF Len(tokens) < 1
        THEN ParseResult(ZeroCommand, Errorf("unknown verb %q", <<"">>))
        ELSE ParseTokens(tokens)

\* ParseCommand that tokenizes the line as it was typed.
ParseCommandRaw(toParse) ==
    LET tokens == Fields(toParse)
    IN  IF Len(tokens) < 1 THEN ParseResult(ZeroCommand, NilErr)
        ELSE ParseTokens(tokens)

\* ParseCommand that brings only the verb to upper case.
ParseCommandVerbUpper(toParse) ==
    LET tokens == Fields(toParse)
    IN  IF Len(tokens) < 1 THEN ParseResult(ZeroCommand, NilErr)
        ELSE ParseTokens(<<Head(Fields(ToUpper(toParse)))>> \o Tail(tokens))

\* ParseCommand
ParseCommand(toParse) ==
    LET normalizedCase == ToUpper(toParse)
        tokens == Fields(normalizedCase)
    IN  IF Len(tokens) < 1 THEN ParseResult(ZeroCommand, NilErr)
        ELSE ParseTokens(tokens)

\* ------------------------------------------------------ lines of text

\* Words a line starts with, letter by letter: the words of the synonym
\* table and a word outside it.
FirstWords ==
    { <<"G", "O">>,
      <<"M", "O", "V", "E">>,
      <<"E", "A", "S", "T">>,
      <<"N", "O", "R", "T", "H">>,
      <<"L", "O", "O", "K">>,
      <<"E", "X", "I", "T", "S">>,
      <<"H", "E", "L", "P">>,
      <<"Q", "U", "I", "T">>,
      <<"E", "X", "I", "T">>,
      <<"D", "E", "B", "U", "G">>,
      <<"F", "R", "O", "B", "N", "I", "C", "A", "T", "E">> }

\* Words that follow.
MoreWords == { <<"E", "A", "S", "T">>, <<"R", "O", "O", "M">>, <<"C", "U", "P">> }

WordLists ==
    {<<>>} \cup UNION { {<<w>> \o more : w \in FirstWords, more \in [1..n -> MoreWords]} :
                          n \in 0..(MaxTokens - 1) }

ToLowerChar(c) ==
    IF \E i \in 1..Len(Capital) : Capital[i] = c
    THEN Small[CHOOSE i \in 1..Len(Capital) : Capital[i] = c]
    ELSE c

\* How a player types a list of words: the letter case, and the white space
\* before, between and after the words.
Styles ==
    { [case |-> "upper", lead |-> <<>>, sep |-> <<" ">>, trail |-> <<>>],
      [case |-> "lower", lead |-> <<>>, sep |-> <<" ">>, trail |-> <<"\n">>],
      [case |-> "mixed", lead |-> <<" ">>, sep |-> <<" ", " ">>, trail |-> <<" ", "\r", "\n">>],
      [case |-> "upper", lead |-> <<"\t", " ">>, sep |-> <<"\t">>, trail |-> <<"\n">>],
      [case |-> "lower", lead |-> <<" ", " ">>, sep |-> <<" ", "\t", " ">>, trail |-> <<"\t">>] }

TypeWord(word, case) ==
    [i \in 1..Len(word) |->
        IF case = "lower" \/ (case = "mixed" /\ i % 2 = 0) THEN ToLowerChar(word[i])
        ELSE word[i]]

RECURSIVE TypeWords(_, _)
TypeWords(words, style) ==
    IF Len(words) = 0 THEN <<>>
    ELSE IF Len(words) = 1 THEN TypeWord(words[1], style.case)
    ELSE TypeWord(words[1], style.case) \o style.sep \o TypeWords(Tail(words), style)

\* The line typed: the words in the style's case and white space.
TypeLine(words, style) ==
    [words |-> words, style |-> style,
     text |-> style.lead \o TypeWords(words, style) \o style.trail]

\* Two lines wait to be parsed: one list of words typed in two styles.
InitParse ==
    /\ \E words \in WordLists, s1 \in Styles, s2 \in Styles :
           input = <<TypeLine(words, s1), TypeLine(words, s2)>>
    /\ perIter = FALSE
    /\ defs = <<>>
    /\ mem = <<>>
    /\ gs = <<>>
    /\ last = NoCall
    /\ pre = [gs |-> gs, mem |-> mem]
    /\ hist = Overflow
    /\ halted = FALSE

\* One call of ParseCommand on the next line.  before is the call before
\* this one: its line and what it returned.
ParseCommandCall ==
    /\ input /= <<>>
    /\ \E r \in {ParseCommand(Head(input).text)} :
           last' = [op |-> "ParseCommand", line |-> Head(input), cmd |-> r.cmd, err |-> r.err,
                    before |-> IF last.op = "ParseCommand"
                               THEN <<[line |-> last.line, cmd |-> last.cmd, err |-> last.err]>>
                               ELSE <<>>]
    /\ input' = Tail(input)
    /\ UNCHANGED <<perIter, defs, mem, gs, pre, hist, halted>>

NextParse == ParseCommandCall

SpecParse == InitParse /\ [][NextParse]_vars

\* ------------------------------------------------------------ GetCommand

\* Lines in an input stream (MaxLines + 1 make a longer stream).
MaxLines == 3

\* err.Error() of an error of ParseCommand.
ErrorText(err) ==
    IF err.format = "unknown verb %q" THEN "unknown verb " \o Quote(err.args[1])
    ELSE err.format

\* The place of the first "\n" at or after i, 0 when there is none.
RECURSIVE IndexNewline(_, _)
IndexNewline(s, i) ==
    IF i > Len(s) THEN 0
    ELSE IF s[i] = "\n" THEN i
    ELSE IndexNewline(s, i + 1)

\* A ReadString that reports the end of the stream as an empty line.
ReadStringNoEOF(s) ==
    LET i == IndexNewline(s, 1)
    IN  IF i = 0 THEN [line |-> s, rest |-> <<>>, err |-> NilErr]
        ELSE [line |-> SubSeq(s, 1, i), rest |-> SubSeq(s, i + 1, Len(s)), err |-> NilErr]

\* istream.ReadString('\n'): the characters up to and with the first "\n";
\* at the end of the stream what is left and the error io.EOF.
ReadString(s) ==
    LET i == IndexNewline(s, 1)
    IN  IF i = 0 THEN [line |-> s, rest |-> <<>>, err |-> Errorf("EOF", <<>>)]
        ELSE [line |-> SubSeq(s, 1, i), rest |-> SubSeq(s, i + 1, Len(s)), err |-> NilErr]

\* A loop that ends on every line that parses.
AfterParseAnyVerb(parsed) ==
    IF parsed.err /= NilErr THEN "report" ELSE "done"

\* What follows the call of ParseCommand in the loop: the report of the
\* error, the end of the loop (gotValidCommand), or the next prompt.
AfterParse(parsed) ==
    IF parsed.err /= NilErr THEN "report"
    ELSE IF parsed.cmd.Verb /= "" THEN "done"
    ELSE "prompt"

\* GetCommand about to run: nothing written, no line read.
GetCommandEntry ==
    [op |-> "GetCommand", pc |-> "enter", cmd |-> ZeroCommand, err |-> NilErr,
     out |-> <<>>, seen |-> <<>>, msg |-> ""]

\* ostream.WriteString(text) and ostream.Flush(): a failure of either is
\* returned, wrapped; after both GetCommand goes on at pc.
WriteAndFlush(g, text, io, pc) ==
    IF io = "write"
    THEN [g EXCEPT !.pc = "done", !.err = Errorf("could not write output: %w", <<IoError>>)]
    ELSE IF io = "flush"
    THEN [g EXCEPT !.pc = "done", !.out = Append(g.out, text),
                   !.err = Errorf("could not flush output: %w", <<IoError>>)]
    ELSE [g EXCEPT !.pc = pc, !.out = Append(g.out, text)]

\* The read of a line and its parse.  rd = "error" is a read that fails for
\* another reason than the end of the stream.
ReadAndParse(g, s, rd) ==
    LET r == ReadString(s)
        parsed == ParseCommand(r.line)
    IN  IF rd = "error"
        THEN [g |-> [g EXCEPT !.pc = "done",
                              !.err = Errorf("could not get input: %w", <<IoError>>)],
              rest |-> s]
        ELSE IF r.err /= NilErr
        THEN [g |-> [g EXCEPT !.pc = "done",
                              !.err = Errorf("could not get input: %w", <<r.err.format>>)],
              rest |-> r.rest]
        ELSE [g |-> [g EXCEPT !.pc = AfterParse(parsed),
                              !.cmd = parsed.cmd,
                              !.seen = Append(g.seen, [line |-> r.line, parsed |-> parsed]),
                              !.msg = IF parsed.err /= NilErr
                                      THEN ErrorText(parsed.err)
                                               \o "\nTry HELP for valid commands\n"
                                      ELSE ""],
              rest |-> r.rest]

\* Lines a player sends: a command, an empty line, a line of white space, a
\* word that is no verb, a command in tabs, and a command without its "\n".
LinePool ==
    { <<"g", "o", " ", "e", "a", "s", "t", "\n">>,
      <<"\n">>,
      <<" ", "\t", "\r", "\n">>,
      <<"f", "r", "o", "b", "\n">>,
      <<"\t", "Q", "u", "i", "t", "\n">>,
      <<"L", "O", "O", "K">> }

RECURSIVE Flatten(_)
Flatten(lines) == IF Len(lines) = 0 THEN <<>> ELSE Head(lines) \o Flatten(Tail(lines))

Streams == {Flatten(lines) : lines \in UNION {[1..n -> LinePool] : n \in 0..MaxLines}}

\* A State of the game, an input stream, and GetCommand about to run.
InitGetCommand ==
    /\ input \in Streams
    /\ perIter = FALSE
    /\ defs = LoadDefs(TwoRooms)
    /\ gs = <<NewState(LoadDefs(TwoRooms), "A", 1)>>
    /\ mem = [a \in (0..1) \X (1..Len(TwoRooms)) |-> <<>>]
    /\ last = GetCommandEntry
    /\ pre = [gs |-> gs, mem |-> mem]
    /\ hist = Overflow
    /\ halted = FALSE

\* The write of "Enter command".
GetCommandEnter(io) ==
    /\ last.pc = "enter"
    /\ last' = WriteAndFlush(last, "Enter command\n", io, "prompt")
    /\ UNCHANGED <<input, perIter, defs, mem, gs, pre, hist, halted>>

\* The write of the prompt at the head of the loop.
GetCommandPrompt(io) ==
    /\ last.pc = "prompt"
    /\ last' = WriteAndFlush(last, "> ", io, "read")
    /\ UNCHANGED <<input, perIter, defs, mem, gs, pre, hist, halted>>

\* The read of a line and the call of ParseCommand.
GetCommandRead(rd) ==
    /\ last.pc = "read"
    /\ \E r \in {ReadAndParse(last, input, rd)} :
           /\ last' = r.g
           /\ input' = r.rest
    /\ UNCHANGED <<perIter, defs, mem, gs, pre, hist, halted>>

\* The report of a line that did not parse.
GetCommandReport(io) ==
    /\ last.pc = "report"
    /\ last' = WriteAndFlush(last, last.msg, io, "prompt")
    /\ UNCHANGED <<input, perIter, defs, mem, gs, pre, hist, halted>>

NextGetCommand ==
    \/ \E io \in IoOutcomes : GetCommandEnter(io)
    \/ \E io \in IoOutcomes : GetCommandPrompt(io)
    \/ \E rd \in {"ok", "error"} : GetCommandRead(rd)
    \/ \E io \in IoOutcomes : GetCommandReport(io)

SpecGetCommand == InitGetCommand /\ [][NextGetCommand]_vars

\* ------------------------------------------------------------- claims

\* What can be observed of a room: its fields, with the elements of Items.
Observed(room, m) ==
    [ Label |-> room.Label, Name |-> room.Name, Description |-> room.Description,
      Exits |-> room.Exits, Items |-> Elems(m, room.Items) ]

\* What can be observed through a State.
View(st, m) ==
    [ World |-> [l \in DOMAIN st.World |-> Observed(st.World[l], m)],
      CurrentRoom |-> st.CurrentRoom, Inventory |-> st.Inventory ]

\* The source list the sessions were built from.
TheWorld == CHOOSE w \in Worlds : LoadDefs(w.rooms) = defs

\* The room that was current when the last call started.
PreRoom == pre.gs[1].World[pre.gs[1].CurrentRoom]

\* The exits of room that carry alias.
Carrying(room, alias) ==
    {k \in 1..Len(room.Exits) :
        \E j \in 1..Len(room.Exits[k].Aliases) : room.Exits[k].Aliases[j] = alias}

IsAdvance(verb) == last.op = "Advance" /\ last.cmd.Verb = verb

Succeeded == last.err = NilErr /\ ~last.panic

GoEast == Cmd("GO", "EAST", "")

\* C1: whenever Advance returns a non-nil error, whatever its cause, the
\* current room, the inventory and every room of the World are what they were
\* before the call.
C1_AllOrNothing ==
    (last.op = "Advance" /\ last.err /= NilErr)
        => View(gs[1], mem) = View(pre.gs[1], pre.mem)

\* C2: a GO whose Recipient is an alias of an exit of the current room (every
\* such exit leading to a room of the World, the write and the flush
\* succeeding) succeeds, makes the room named by that exit's DestLabel the
\* current room and writes that exit's TravelMessage.
C2_GoFollowsExit ==
    (/\ IsAdvance("GO")
     /\ last.io = "ok"
     /\ pre.gs[1].CurrentRoom /= NilPtr
     /\ Carrying(PreRoom, last.cmd.Recipient) /= {}
     /\ \A k \in Carrying(PreRoom, last.cmd.Recipient) :
            PreRoom.Exits[k].DestLabel \in DOMAIN gs[1].World)
        => /\ Succeeded
           /\ \E k \in Carrying(PreRoom, last.cmd.Recipient) :
                  /\ gs[1].CurrentRoom = PreRoom.Exits[k].DestLabel
                  /\ gs[1].World[gs[1].CurrentRoom].Label = PreRoom.Exits[k].DestLabel
                  /\ last.wrote = <<PreRoom.Exits[k].TravelMessage \o "\n\n">>

C4_QuitRejected ==
    IsAdvance("QUIT")
        => /\ last.err /= NilErr
           /\ ~last.panic
           /\ last.wrote = <<>>
           /\ ~last.flushed
           /\ View(gs[1], mem) = View(pre.gs[1], pre.mem)

C4_Witness ==
    /\ IsAdvance("QUIT")
    /\ last.cmd.Recipient = "DOOR"
    /\ last.cmd.Instrument = "CUP"
    /\ gs[1].CurrentRoom = "HALLWAY"
    /\ last.err = Errorf("I can't QUIT; I'm not being executed by a quitable engine", <<>>)

\* C5: nothing done through the first State (Advance, RemoveItem on its
\* rooms) changes what is observed through another State built from the same
\* source list, or through the source list itself.
C5_Isolation ==
    /\ \A s \in DOMAIN gs \ {1} :
           View(gs[s], mem) =
               [ World |-> [l \in Labels(TheWorld.rooms) |->
                               TheWorld.rooms[IndexOf(TheWorld.rooms, l)]],
                 CurrentRoom |-> TheWorld.start,
                 Inventory |-> <<>> ]
    /\ \A i \in 1..Len(defs) : Observed(defs[i], mem) = TheWorld.rooms[i]

C5_Witness ==
    /\ defs = LoadDefs(CellarRooms)
    /\ last.op = "RemoveItem"
    /\ gs[1].CurrentRoom = "ATTIC"
    /\ Elems(mem, gs[1].World["CELLAR"].Items) = <<Key, Goblet>>
    /\ Elems(mem, gs[2].World["CELLAR"].Items) = <<Cup, Key, Goblet>>

\* C6: the egress lookup returns a non-nil egress exactly when the alias is
\* an element of the alias list of some exit of the room; the comparison is
\* exact, so an alias in another letter case is not found.
C6_LookupIffAlias ==
    last.op = "GetEgress"
        => /\ (last.egress /= <<>>) <=>
                  (Carrying(pre.gs[1].World[last.room], last.alias) /= {})
           /\ last.alias = "east" => last.egress = <<>>

C6_Witness ==
    /\ last.op = "GetEgress"
    /\ last.room = "YOUR_ROOM"
    /\ last.alias = "EAST"
    /\ last.egress /= <<>>

\* Some alias occurs twice among the aliases of the room's exits.
RepeatsAlias(room) ==
    \E i, j \in 1..Len(FlatAliases(room.Exits)) :
        i /= j /\ FlatAliases(room.Exits)[i] = FlatAliases(room.Exits)[j]

DistinctLabels(rooms) ==
    \A i, j \in 1..Len(rooms) : rooms[i].Label = rooms[j].Label => i = j

\* C7: construction (New, and the package's init) fails with the
\* duplicate-egress-alias error whenever some room of a list of distinctly
\* labelled rooms repeats an alias within its exits.
C7_DuplicateAliasRejected ==
    (/\ last.op \in {"New", "init"}
     /\ DistinctLabels(defs)
     /\ \E i \in 1..Len(defs) : RepeatsAlias(defs[i]))
        => IF last.op = "New"
           THEN /\ ~last.panic
                /\ last.err.format = "duplicate egress alias %q in room %q in roomDefs"
           ELSE /\ last.panic
                /\ last.value.format = "duplicate egress alias %q in room %q in roomDefs"

\* C8: New returns the duplicate-room-label error, as an error value, whenever
\* two rooms of the list share a Label (and no room repeats an alias).
C8_DuplicateLabelRejected ==
    (/\ last.op = "New"
     /\ ~DistinctLabels(defs)
     /\ \A i \in 1..Len(defs) : ~RepeatsAlias(defs[i]))
        => /\ ~last.panic
           /\ last.err.format = "duplicate room label %q in roomDefs"
           /\ \E i, j \in 1..Len(defs) :
                  i < j /\ defs[i].Label = defs[j].Label /\ last.err.args = <<defs[j].Label>>

\* C9: New returns an error whenever the starting label is the Label of no
\* room of the list, the empty list included.
C9_UnknownStartRejected ==
    (last.op = "New" /\ last.startingRoom \notin Labels(defs))
        => ~last.panic /\ last.err /= NilErr

\* C10 as claimed: LOOK succeeds exactly when the Recipient is empty; on
\* success the narration is the Description of the room current at the call;
\* with a Recipient it fails with the unsupported-target error.
C10_LookIffNoRecipient ==
    IsAdvance("LOOK")
        => /\ Succeeded <=> (last.cmd.Recipient = "")
           /\ Succeeded => last.wrote = <<PreRoom.Description \o "\n\n">>
           /\ last.cmd.Recipient /= ""
                  => last.err = Errorf("I can't LOOK at particular things yet", <<>>)

\* C10 amended: LOOK returns a nil error exactly when the Recipient is empty,
\* there is a current room and the write and the flush succeed; the text
\* written is then the Description of the room current at the call and a
\* blank line; with a Recipient it fails with the unsupported-target error
\* and hands nothing to the stream; a failed write or flush is returned as
\* an error; without a current room the call panics.
C10_Look ==
    IsAdvance("LOOK")
        => /\ Succeeded <=> (/\ last.cmd.Recipient = ""
                             /\ pre.gs[1].CurrentRoom /= NilPtr
                             /\ last.io = "ok")
           /\ Succeeded => /\ last.wrote = <<PreRoom.Description \o "\n\n">>
                           /\ last.flushed
           /\ last.cmd.Recipient /= ""
                  => /\ last.err = Errorf("I can't LOOK at particular things yet", <<>>)
                     /\ last.wrote = <<>>
           /\ (last.cmd.Recipient = "" /\ pre.gs[1].CurrentRoom /= NilPtr /\ last.io /= "ok")
                  => /\ last.err.format \in {"could not write output: %w",
                                            "could not flush output: %w"}
                     /\ ~last.flushed
           /\ last.panic <=> (last.cmd.Recipient = "" /\ pre.gs[1].CurrentRoom = NilPtr)
           /\ View(gs[1], mem) = View(pre.gs[1], pre.mem)

C10_Witness ==
    /\ IsAdvance("LOOK")
    /\ Succeeded
    /\ defs = LoadDefs(DefaultRooms)
    /\ gs[1].CurrentRoom = "BATHROOM"
    /\ last.wrote = <<DefaultRooms[2].Description \o "\n\n">>

IoErrors == {"could not write output: %w", "could not flush output: %w"}

\* C11 as claimed: Advance with Verb EXITS or HELP returns a nil error in
\* every State, for every Recipient and Instrument.
C11_NeverFail ==
    (IsAdvance("EXITS") \/ IsAdvance("HELP")) => Succeeded

\* C11 amended: HELP returns a nil error exactly when the write and the flush
\* succeed, EXITS exactly when moreover there is a current room; neither
\* looks at the Recipient or the Instrument; the only error either returns
\* is the failed write or flush; EXITS without a current room panics; on
\* success EXITS writes one line per exit (aliases joined by "/", " -> ", the
\* exit's Description) and HELP the command reference.
C11_ExitsHelp ==
    /\ IsAdvance("HELP")
           => /\ ~last.panic
              /\ (last.err = NilErr) <=> (last.io = "ok")
              /\ last.err /= NilErr => last.err.format \in IoErrors
              /\ Succeeded => last.wrote = <<HelpText \o "\n\n">>
    /\ IsAdvance("EXITS")
           => /\ last.panic <=> (pre.gs[1].CurrentRoom = NilPtr)
              /\ Succeeded <=> (pre.gs[1].CurrentRoom /= NilPtr /\ last.io = "ok")
              /\ last.err /= NilErr => last.err.format \in IoErrors
              /\ Succeeded =>
                     last.wrote =
                         <<Join([k \in 1..Len(PreRoom.Exits) |->
                                    Join(PreRoom.Exits[k].Aliases, "/") \o " -> "
                                        \o PreRoom.Exits[k].Description \o "\n"], "")
                           \o "\n\n">>

C11_Witness ==
    /\ IsAdvance("EXITS")
    /\ last.cmd.Recipient = "DOOR"
    /\ Succeeded
    /\ gs[1].CurrentRoom = "BATHROOM"
    /\ last.wrote = <<"BEDROOM/ROOM/DOOR/WEST -> the door\n\n\n">>

\* C12: no Advance call changes the Inventory or, in any room of the World,
\* the Label, Name, Description, Exits or Items; the current room is another
\* one after the call only when the call was a GO that returned a nil error.
C12_Frame ==
    last.op = "Advance"
        => /\ gs[1].Inventory = pre.gs[1].Inventory
           /\ View(gs[1], mem).World = View(pre.gs[1], pre.mem).World
           /\ gs[1].CurrentRoom /= pre.gs[1].CurrentRoom
                  => (IsAdvance("GO") /\ Succeeded)

\* C13 as claimed: DEBUG succeeds exactly when the Recipient is "ROOM"; on
\* success the narration is the dump of the current room; for every other
\* Recipient (the empty one included) it fails with an error naming it.
C13_DebugIffRoom ==
    IsAdvance("DEBUG")
        => /\ Succeeded <=> (last.cmd.Recipient = "ROOM")
           /\ Succeeded => last.wrote = <<RoomString(PreRoom) \o "\n\n">>
           /\ last.cmd.Recipient /= "ROOM"
                  => last.err = Errorf("I don't know how to debug %q", <<last.cmd.Recipient>>)

\* C13 amended: DEBUG returns a nil error exactly when the Recipient is
\* "ROOM", there is a current room and the write and the flush succeed; the
\* text written is then the dump of the current room (label, quoted name,
\* exits with their quoted aliases and destination) and a blank line; for
\* every other Recipient it fails with the error naming that Recipient and
\* hands nothing to the stream; a failed write or flush is returned as an
\* error; DEBUG ROOM without a current room panics; the State is unchanged.
C13_Debug ==
    IsAdvance("DEBUG")
        => /\ Succeeded <=> (/\ last.cmd.Recipient = "ROOM"
                             /\ pre.gs[1].CurrentRoom /= NilPtr
                             /\ last.io = "ok")
           /\ Succeeded => /\ last.wrote = <<RoomString(PreRoom) \o "\n\n">>
                           /\ last.flushed
           /\ (Succeeded /\ defs = LoadDefs(TwoRooms) /\ PreRoom.Label = "B")
                  => last.wrote = <<"Room<B \"room b\" EXITS: Egress([\"WEST\"] -> A)>\n\n">>
           /\ last.cmd.Recipient /= "ROOM"
                  => /\ last.err = Errorf("I don't know how to debug %q", <<last.cmd.Recipient>>)
                     /\ last.wrote = <<>>
           /\ (last.cmd.Recipient = "ROOM" /\ pre.gs[1].CurrentRoom /= NilPtr /\ last.io /= "ok")
                  => last.err.format \in IoErrors /\ ~last.flushed
           /\ last.panic <=> (last.cmd.Recipient = "ROOM" /\ pre.gs[1].CurrentRoom = NilPtr)
           /\ View(gs[1], mem) = View(pre.gs[1], pre.mem)

C13_Witness ==
    /\ IsAdvance("DEBUG")
    /\ Succeeded
    /\ defs = LoadDefs(DefaultRooms)
    /\ gs[1].CurrentRoom = "YOUR_ROOM"
    /\ hist = Overflow
    /\ last.wrote =
           <<"Room<YOUR_ROOM \"your bedroom\" EXITS: "
             \o "Egress([\"BATHROOM\" \"TOILET\" \"DOOR\" \"EAST\"] -> BATHROOM), "
             \o "Egress([\"HALLWAY\" \"HALL\" \"OUT\" \"SOUTH\"] -> HALLWAY)>\n\n">>

KnownVerbs == {"QUIT", "GO", "EXITS", "LOOK", "DEBUG", "HELP"}

\* C14: for every Command whose Verb is none of QUIT, GO, EXITS, LOOK, DEBUG,
\* HELP (the empty Verb, a verb in lower case and the verbs TAKE, GET, DROP,
\* PUT, USE, TALK included) Advance returns the unknown-verb error naming the
\* Verb, hands nothing to the output stream and leaves the State unchanged.
C14_UnknownVerb ==
    (last.op = "Advance" /\ last.cmd.Verb \notin KnownVerbs)
        => /\ ~last.panic
           /\ last.err = Errorf("I don't know how to %q", <<last.cmd.Verb>>)
           /\ last.wrote = <<>>
           /\ ~last.flushed
           /\ View(gs[1], mem) = View(pre.gs[1], pre.mem)

C14_Witness ==
    /\ IsAdvance("TAKE")
    /\ last.cmd.Recipient = "CUP"
    /\ defs = LoadDefs(CellarRooms)
    /\ gs[1].CurrentRoom = "CELLAR"
    /\ gs[1].Inventory = <<>>
    /\ Elems(mem, gs[1].World["CELLAR"].Items) = <<Cup, Key, Goblet>>
    /\ last.err = Errorf("I don't know how to %q", <<"TAKE">>)

\* The items of the room of the last call, when the call started and now.
ItemsBefore == Elems(pre.mem, pre.gs[1].World[last.room].Items)

ItemsAfter == Elems(mem, gs[1].World[last.room].Items)

\* The place of the first item that has the label.
FirstWith(items, label) ==
    CHOOSE k \in 1..Len(items) :
        items[k].Label = label /\ \A j \in 1..(k - 1) : items[j].Label /= label

Without(items, k) == SubSeq(items, 1, k - 1) \o SubSeq(items, k + 1, Len(items))

\* The places of the items that carry the alias.
ItemsCarrying(items, alias) == {k \in 1..Len(items) : HasAlias(items[k].Aliases, alias)}

C16_RoundTrip ==
    /\ (last.op = "GetItemByAlias" /\ last.removed /= <<>>)
           => \A k \in 1..Len(last.before) :
                  (/\ last.before[k].Label = last.removed[1]
                   /\ HasAlias(last.before[k].Aliases, last.alias))
                      => last.item = <<>>
    /\ (last.op = "RemoveItem" /\ CountLabel(ItemsBefore, last.label) > 0)
           => \E k \in 1..Len(ItemsBefore) :
                  ItemsBefore[k].Label = last.label /\ ItemsAfter = Without(ItemsBefore, k)

\* C16 amended: RemoveItem(label) takes out the first item X that has the
\* label and leaves the others in their order; a lookup returns nil exactly
\* when no item now in the room carries the alias, so right after the removal
\* a lookup by an alias of X returns nil exactly when no other item of the
\* room carries that alias.
C16_RemoveThenLookup ==
    /\ (last.op = "RemoveItem" /\ CountLabel(ItemsBefore, last.label) > 0)
           => ItemsAfter = Without(ItemsBefore, FirstWith(ItemsBefore, last.label))
    /\ last.op = "GetItemByAlias"
           => /\ (last.item = <<>>) <=> (ItemsCarrying(ItemsAfter, last.alias) = {})
              /\ last.item /= <<>> => \E k \in 1..Len(ItemsAfter) : last.item = <<ItemsAfter[k]>>
              /\ (last.removed /= <<>> /\ CountLabel(last.before, last.removed[1]) > 0)
                     => LET x == FirstWith(last.before, last.removed[1])
                        IN  x \in ItemsCarrying(last.before, last.alias)
                               => ((last.item = <<>>) <=>
                                      (ItemsCarrying(last.before, last.alias) = {x}))

C16_Witness ==
    /\ last.op = "GetItemByAlias"
    /\ last.room = "LOFT"
    /\ last.removed = <<"LAMP">>
    /\ last.before = <<Lamp, Key, Candle>>
    /\ ItemsAfter = <<Key, Candle>>
    /\ last.alias = "LAMP"
    /\ last.item = <<>>

\* The word as a string.
RECURSIVE Str(_)
Str(word) == IF Len(word) = 0 THEN "" ELSE Head(word) \o Str(Tail(word))

\* C17: ParseCommand on the empty line, or on a line of nothing but white
\* space, returns the zero-value Command and a nil error.
C17_EmptyLine ==
    (/\ last.op = "ParseCommand"
     /\ \A i \in 1..Len(last.line.text) : last.line.text[i] \in {" ", "\t", "\r", "\n"})
        => /\ last.cmd = [Verb |-> "", Recipient |-> "", Instrument |-> ""]
           /\ last.err = NilErr

C17_Witness ==
    /\ last.op = "ParseCommand"
    /\ last.line.text = <<" ", " ", "\r", "\n">>
    /\ last.before /= <<>>
    /\ last.before[1].line.text = <<>>
    /\ last.before[1].cmd.Verb = ""
    /\ last.cmd.Verb = ""
    /\ last.err = NilErr

\* C18: two lines made of the same words, whatever the letter case of each
\* and the white space before, between and after the words, yield the same
\* Command and the same error.
C18_CaseAndSpace ==
    (/\ last.op = "ParseCommand"
     /\ last.before /= <<>>
     /\ last.before[1].line.words = last.line.words)
        => /\ last.cmd = last.before[1].cmd
           /\ last.err = last.before[1].err

C18_Witness ==
    /\ last.op = "ParseCommand"
    /\ last.before /= <<>>
    /\ last.before[1].line.text = <<"G", "O", " ", "E", "A", "S", "T">>
    /\ last.line.text = <<" ", "G", "o", " ", " ", "E", "a", "S", "t", " ", "\r", "\n">>
    /\ last.cmd = Cmd("GO", "EAST", "")
    /\ last.before[1].cmd = Cmd("GO", "EAST", "")

\* C19: "go east" in any letter case yields Verb GO and Recipient EAST; MOVE
\* followed by a word yields Verb GO with that word as Recipient; a direction
\* alone yields Verb GO with the direction as Recipient.
C19_MovementWords ==
    last.op = "ParseCommand"
        => LET words == last.line.words
           IN  /\ words = <<(<<"G", "O">>), (<<"E", "A", "S", "T">>)>>
                      => last.cmd = Cmd("GO", "EAST", "") /\ last.err = NilErr
               /\ (Len(words) >= 2 /\ words[1] = <<"M", "O", "V", "E">>)
                      => /\ last.cmd.Verb = "GO"
                         /\ last.cmd.Recipient = Str(words[2])
                         /\ last.err = NilErr
               /\ (Len(words) = 1 /\ Str(words[1]) \in {"NORTH", "SOUTH", "EAST", "WEST"})
                      => /\ last.cmd.Verb = "GO"
                         /\ last.cmd.Recipient = Str(words[1])
                         /\ last.err = NilErr

C19_Witness ==
    /\ last.op = "ParseCommand"
    /\ last.line.text = <<"n", "o", "r", "t", "h", "\n">>
    /\ last.cmd = Cmd("GO", "NORTH", "")
    /\ last.err = NilErr

\* The message of each kind of failure of Advance.
KindFormat ==
    [ QUIT    |-> "I can't QUIT; I'm not being executed by a quitable engine",
      GO      |-> "%q isn't a place you can go from here",
      LOOK    |-> "I can't LOOK at particular things yet",
      DEBUG   |-> "I don't know how to debug %q",
      unknown |-> "I don't know how to %q" ]

\* The kind of failure a command can end in.
KindOf(cmd) == IF cmd.Verb \in {"QUIT", "GO", "LOOK", "DEBUG"} THEN cmd.Verb ELSE "unknown"

\* The token a failure of the kind is about.
Offending(cmd) ==
    IF cmd.Verb \in {"GO", "LOOK", "DEBUG"} THEN cmd.Recipient ELSE cmd.Verb

\* C20 as claimed: every error Advance returns has the message of its kind
\* (QUIT rejected, no such exit, unsupported LOOK target, unknown debug
\* target, unknown verb), the messages of two kinds differ, and the message
\* shows the token the failure is about.
C20_ErrorsNameToken ==
    (last.op = "Advance" /\ last.err /= NilErr)
        => /\ last.err.format = KindFormat[KindOf(last.cmd)]
           /\ \A k1, k2 \in DOMAIN KindFormat : KindFormat[k1] = KindFormat[k2] => k1 = k2
           /\ Offending(last.cmd) \in Mentions(last.err)

\* C20 amended: an error Advance returns is either the failed write or flush
\* of the output (after GO, EXITS, LOOK, DEBUG ROOM or HELP), which shows no
\* word of the command, or the message of its kind; the seven messages
\* differ; the QUIT message shows the word QUIT, the no-such-exit and the
\* unknown-debug-target messages the Recipient, the unknown-verb message the
\* Verb, and the LOOK message the word LOOK but not the Recipient it refuses.
C20_ErrorMessages ==
    (last.op = "Advance" /\ last.err /= NilErr)
        => /\ ~last.panic
           /\ Cardinality({KindFormat[k] : k \in DOMAIN KindFormat} \cup IoErrors) = 7
           /\ IF last.err.format \in IoErrors
              THEN /\ last.io /= "ok"
                   /\ last.cmd.Verb \in {"GO", "EXITS", "LOOK", "DEBUG", "HELP"}
                   /\ last.err.args = <<IoError>>
                   /\ Mentions(last.err) \cap {last.cmd.Verb, last.cmd.Recipient} = {}
              ELSE /\ last.err.format = KindFormat[KindOf(last.cmd)]
                   /\ last.wrote = <<>>
                   /\ last.cmd.Verb = "LOOK"
                          => /\ Mentions(last.err) = {"LOOK"}
                             /\ last.cmd.Recipient /= ""
                             /\ last.cmd.Recipient \notin Mentions(last.err)
                   /\ last.cmd.Verb /= "LOOK" => Mentions(last.err) = {Offending(last.cmd)}

C20_Witness ==
    /\ IsAdvance("DEBUG")
    /\ last.cmd.Recipient = "DOOR"
    /\ gs[1].CurrentRoom = "B"
    /\ last.err = Errorf("I don't know how to debug %q", <<"DOOR">>)

\* C21: when more than one exit of the room carries the alias, the egress
\* lookup returns the first of them in the order of Exits, with that exit's
\* own DestLabel and TravelMessage.
C21_FirstMatchingExit ==
    (/\ last.op = "GetEgress"
     /\ Cardinality(Carrying(pre.gs[1].World[last.room], last.alias)) > 1)
        => LET room == pre.gs[1].World[last.room]
               first == CHOOSE k \in Carrying(room, last.alias) :
                            \A j \in Carrying(room, last.alias) : k <= j
           IN  /\ last.egress /= <<>>
               /\ last.egress[1].DestLabel = room.Exits[first].DestLabel
               /\ last.egress[1].TravelMessage = room.Exits[first].TravelMessage

\* What the lines read so far make GetCommand write after its first prompt:
\* for a line that did not parse its message and a prompt, for a line
\* without a verb a prompt, for a command nothing.
RECURSIVE Echo(_)
Echo(seen) ==
    IF Len(seen) = 0 THEN <<>>
    ELSE (IF Head(seen).parsed.err /= NilErr
          THEN <<ErrorText(Head(seen).parsed.err) \o "\nTry HELP for valid commands\n", "> ">>
          ELSE IF \A i \in 1..Len(Head(seen).line) :
                      Head(seen).line[i] \in {" ", "\t", "\r", "\n"}
          THEN <<"> ">>
          ELSE <<>>)
         \o Echo(Tail(seen))

Expected(seen) == <<"Enter command\n", "> ">> \o Echo(seen)

IsPrefix(s, whole) == Len(s) <= Len(whole) /\ s = SubSeq(whole, 1, Len(s))

\* C22 as claimed: GetCommand returns a nil error only with a Command whose
\* Verb is not empty; whenever it is about to read a line, or has returned,
\* every line read that did not parse has produced its error message and a
\* new prompt, and every blank line a new prompt and no message; the game
\* State is not touched.
C22_ParseFailuresRecoverable ==
    last.op = "GetCommand"
        => /\ (last.pc = "done" /\ last.err = NilErr) => last.cmd.Verb /= ""
           /\ last.pc \in {"read", "done"}
                  => \A i \in 1..Len(last.seen) :
                         (last.seen[i].parsed.err /= NilErr \/ last.seen[i].parsed.cmd.Verb = "")
                             => IsPrefix(Expected(SubSeq(last.seen, 1, i)), last.out)
           /\ gs = pre.gs /\ mem = pre.mem

\* C22 amended: as claimed as long as no write or flush fails; a failed write
\* or flush (of the greeting, of a prompt or of an error message) ends
\* GetCommand with the wrapped error, what was written being then the
\* beginning of what the lines read call for.  A nil error comes with the
\* Command of the last line read, the only one read that has a verb.
C22_GetCommandLoop ==
    last.op = "GetCommand"
        => /\ (last.pc = "done" /\ last.err = NilErr)
                  => /\ last.cmd.Verb /= ""
                     /\ last.seen /= <<>>
                     /\ last.cmd = last.seen[Len(last.seen)].parsed.cmd
           /\ \A i \in 1..Len(last.seen) :
                  (last.seen[i].parsed.err = NilErr /\ last.seen[i].parsed.cmd.Verb /= "")
                      => (i = Len(last.seen) /\ last.pc = "done" /\ last.err = NilErr)
           /\ last.pc = "read" => last.out = Expected(last.seen)
           /\ (last.pc = "done" /\ last.err.format \notin IoErrors)
                  => last.out = Expected(last.seen)
           /\ (last.pc = "done" /\ last.err.format \in IoErrors)
                  => /\ IsPrefix(last.out, Expected(last.seen))
                     /\ Len(last.out) >= Len(Expected(last.seen)) - 2
           /\ gs = pre.gs /\ mem = pre.mem

C22_Witness ==
    /\ last.op = "GetCommand"
    /\ last.pc = "done"
    /\ last.err = NilErr
    /\ last.cmd = Cmd("GO", "EAST", "")
    /\ Len(last.seen) = 3
    /\ last.seen[1].line = <<"f", "r", "o", "b", "\n">>
    /\ last.seen[2].line = <<" ", "\t", "\r", "\n">>
    /\ last.out = <<"Enter command\n", "> ",
                    "unknown verb \"FROB\"\nTry HELP for valid commands\n", "> ", "> ">>

\* The last line read parsed to a Command with a verb.
GotCommand ==
    /\ last.seen /= <<>>
    /\ last.seen[Len(last.seen)].parsed.err = NilErr
    /\ last.seen[Len(last.seen)].parsed.cmd.Verb /= ""

\* How far GetCommand is from the read of the next line.
Rank(pc) ==
    CASE pc = "enter" -> 4
      [] pc = "report" -> 3
      [] pc = "prompt" -> 2
      [] pc = "read" -> 1
      [] OTHER -> 0

\* Four steps at most per character left in the stream.
Variant == 4 * Len(input) + Rank(last.pc)

\* What holds of GetCommand at every step.
ReturnsRightly ==
    /\ last.pc \in {"enter", "prompt", "read", "report", "done"}
    /\ GotCommand => (last.pc = "done" /\ last.err = NilErr /\ last.cmd.Verb /= "")
    /\ (last.pc = "done" /\ ~GotCommand)
           => last.err.format \in IoErrors \cup {"could not get input: %w"}
    /\ (last.pc = "done" /\ last.err = Errorf("could not get input: %w", <<"EOF">>))
           => input = <<>>
    /\ \A i \in 1..Len(last.seen) : last.seen[i].line[Len(last.seen[i].line)] = "\n"

\* C23: on every input stream GetCommand returns: every step it takes brings
\* it nearer to the end of the stream or to its return (the variant, a
\* natural number, decreases); it has returned as soon as a line read parsed
\* to a Command with a verb, and otherwise it returns only with the wrapped error of a failed
\* write, flush or read, the end of the stream being a failed read: no line
\* is parsed that was not read up to its line break.
C23_Terminates ==
    [][Variant' < Variant /\ Variant' >= 0 /\ ReturnsRightly']_vars

C23_Witness ==
    /\ last.op = "GetCommand"
    /\ last.pc = "done"
    /\ last.err = Errorf("could not get input: %w", <<"EOF">>)
    /\ input = <<>>
    /\ Len(last.seen) = 2
    /\ last.seen[1].line = <<"f", "r", "o", "b", "\n">>
    /\ last.seen[2].line = <<"\n">>
    /\ last.out = <<"Enter command\n", "> ",
                    "unknown verb \"FROB\"\nTry HELP for valid commands\n", "> ", "> ">>

GoDoor == Cmd("GO", "DOOR", "")

\* The rooms of the World other than the one that was current.
OtherRooms == DOMAIN pre.gs[1].World \ {pre.gs[1].CurrentRoom}

\* C24: aliases are resolved against the current room only.  A GO whose
\* Recipient is an alias of an exit of another room but of no exit of the
\* current room fails and leaves the player where they were; a GO whose
\* Recipient is an alias in the current room (written and flushed) leads
\* where an exit of the current room that carries it leads; in the default
\* world GO DOOR from YOUR_ROOM leads to BATHROOM, and a second GO DOOR back
\* to YOUR_ROOM.
C24_OwnRoomAliases ==
    /\ (/\ IsAdvance("GO")
        /\ pre.gs[1].CurrentRoom /= NilPtr
        /\ Carrying(PreRoom, last.cmd.Recipient) = {}
        /\ \E l \in OtherRooms :
               Carrying(pre.gs[1].World[l], last.cmd.Recipient) /= {})
           => /\ last.err /= NilErr
              /\ gs[1].CurrentRoom = pre.gs[1].CurrentRoom
    /\ (/\ IsAdvance("GO")
        /\ last.io = "ok"
        /\ pre.gs[1].CurrentRoom /= NilPtr
        /\ Carrying(PreRoom, last.cmd.Recipient) /= {})
           => \E k \in Carrying(PreRoom, last.cmd.Recipient) :
                  gs[1].CurrentRoom = PreRoom.Exits[k].DestLabel
    /\ (defs = LoadDefs(DefaultRooms) /\ hist = <<GoDoor>> /\ last.io = "ok")
           => gs[1].CurrentRoom = "BATHROOM"
    /\ (/\ defs = LoadDefs(DefaultRooms)
        /\ hist = <<GoDoor, GoDoor>>
        /\ pre.gs[1].CurrentRoom = "BATHROOM"
        /\ last.io = "ok")
           => gs[1].CurrentRoom = "YOUR_ROOM"

\* Some exit of the list names a room that is not in the list.
Dangling(rooms) ==
    \E i \in 1..Len(rooms) : \E k \in 1..Len(rooms[i].Exits) :
        rooms[i].Exits[k].DestLabel \notin Labels(rooms)

\* C25: New returns a nil error for a list in which some exit's DestLabel
\* names no room of the list, when the Labels are distinct, no room repeats
\* an alias and the starting label is the Label of a room of the list.
C25_DanglingExitAccepted ==
    (/\ last.op = "New"
     /\ DistinctLabels(defs)
     /\ \A i \in 1..Len(defs) : ~RepeatsAlias(defs[i])
     /\ last.startingRoom \in Labels(defs)
     /\ Dangling(defs))
        => ~last.panic /\ last.err = NilErr

\* C28: for a non-empty list of distinctly labelled rooms none of which
\* repeats an alias, and a starting label that is one of their Labels, New
\* returns a nil error and a State whose World has one entry per room of the
\* list, under its Label and with its content, and whose current room is the
\* entry of the starting label.
C28_ConstructionPostcondition ==
    (/\ last.op = "New"
     /\ Len(defs) > 0
     /\ DistinctLabels(defs)
     /\ \A i \in 1..Len(defs) : ~RepeatsAlias(defs[i])
     /\ last.startingRoom \in Labels(defs))
        => /\ ~last.panic
           /\ last.err = NilErr
           /\ ~last.gs.World.nil
           /\ DOMAIN last.gs.World.m = Labels(defs)
           /\ \A i \in 1..Len(defs) :
                  LET copy == last.gs.World.m[defs[i].Label]
                  IN  /\ copy.Label = defs[i].Label
                      /\ copy.Name = defs[i].Name
                      /\ copy.Description = defs[i].Description
                      /\ copy.Exits = defs[i].Exits
                      /\ copy.Items.len = defs[i].Items.len
           /\ last.gs.CurrentRoom = last.startingRoom

\* The line of the exit table that shows one exit.
ExitLine(egress) == Join(egress.Aliases, "/") \o " -> " \o egress.Description

\* The lines one after the other, each ended by a line break.
RECURSIVE Stacked(_)
Stacked(lines) ==
    IF Len(lines) = 0 THEN "" ELSE Head(lines) \o "\n" \o Stacked(Tail(lines))

\* C26: the narration of a successful EXITS is one line per exit of the
\* current room, in the order of the room's Exits; each line is the exit's
\* aliases in their order joined by "/", then " -> ", then the exit's
\* Description; for a room without exits there is no such line and the
\* narration is empty.
C26_ExitsNarration ==
    (IsAdvance("EXITS") /\ Succeeded)
        => /\ pre.gs[1].CurrentRoom /= NilPtr
           /\ last.wrote =
                  <<Stacked([k \in 1..Len(PreRoom.Exits) |-> ExitLine(PreRoom.Exits[k])])
                    \o "\n\n">>
           /\ PreRoom.Exits = <<>> => last.wrote = <<"\n\n">>

C26_Witness ==
    /\ IsAdvance("EXITS")
    /\ Succeeded
    /\ defs = LoadDefs(DefaultRooms)
    /\ pre.gs[1].CurrentRoom = "YOUR_ROOM"
    /\ last.wrote = <<"BATHROOM/TOILET/DOOR/EAST -> your bathroom door\n"
                      \o "HALLWAY/HALL/OUT/SOUTH -> the door to the hall\n" \o "\n\n">>

\* The Labels that exits lead to from the rooms labelled in seen, and so on.
RECURSIVE ReachFrom(_, _)
ReachFrom(rooms, seen) ==
    LET next == seen \cup UNION { {rooms[i].Exits[k].DestLabel : k \in 1..Len(rooms[i].Exits)} :
                                    i \in {j \in 1..Len(rooms) : rooms[j].Label \in seen} }
    IN  IF next = seen THEN seen ELSE ReachFrom(rooms, next)

\* C27: in a session over a list in which every exit's DestLabel is the
\* Label of a room, after any Advance calls, failed ones included, there is a
\* current room, it is a room of the World, and exits lead to it from the
\* starting room.
C27_CurrentRoom ==
    ~Dangling(defs)
        => /\ ~halted
           /\ gs[1].CurrentRoom /= NilPtr
           /\ gs[1].CurrentRoom \in DOMAIN gs[1].World
           /\ gs[1].World[gs[1].CurrentRoom].Label = gs[1].CurrentRoom
           /\ gs[1].CurrentRoom \in ReachFrom(defs, {TheWorld.start})

C27_Witness ==
    /\ defs = LoadDefs(DefaultRooms)
    /\ IsAdvance("GO")
    /\ last.io = "flush"
    /\ last.err /= NilErr
    /\ pre.gs[1].CurrentRoom = "HALLWAY"
    /\ gs[1].CurrentRoom = "YOUR_ROOM"
    /\ hist = <<Cmd("GO", "SOUTH", ""), Cmd("GO", "NORTH", "")>>

\* The rooms one GO command leads to from the room stored under label.
GoStep(world, label) ==
    {GetEgress(world[label], alias)[1].DestLabel :
        alias \in {a \in AllAliases : GetEgress(world[label], a) /= <<>>}}

\* The rooms GO commands lead to from the rooms labelled in seen.
RECURSIVE GoReach(_, _)
GoReach(world, seen) ==
    LET next == seen \cup UNION {GoStep(world, l) : l \in seen \cap DOMAIN world}
    IN  IF next = seen THEN seen ELSE GoReach(world, next)

\* C29: in DefaultRooms the Labels are distinct, no room has an alias twice
\* among its exits, every DestLabel is the Label of a room, StartLabel is the
\* Label of a room, and GO commands lead from StartLabel to every room and
\* from every room back to StartLabel.
C29_DefaultWorldWellFormed ==
    defs = LoadDefs(DefaultRooms)
        => /\ DistinctLabels(defs)
           /\ \A i \in 1..Len(defs) : ~RepeatsAlias(defs[i])
           /\ ~Dangling(defs)
           /\ StartLabel \in Labels(defs)
           /\ \A l \in Labels(defs) :
                  /\ l \in GoReach(gs[1].World, {StartLabel})
                  /\ StartLabel \in GoReach(gs[1].World, {l})

====
